---- MODULE Spec2Model ----
(***************************************************************************)
(* Connection registry and event routing of the Bitrix websocket relay.    *)
(*                                                                         *)
(* Three servers of the repository are modelled:                           *)
(*   variant "index"     src/index.ts 1-92     user-keyed relay            *)
(*   variant "heartbeat" src/unnamed/part_000  user-keyed relay + ping     *)
(*   the job server      src/index.ts 294-384  job-keyed relay (Bun)       *)
(* The two user-keyed servers share the variables below; Init picks which  *)
(* of them runs.  The job server has its own variables and specification.  *)
(***************************************************************************)
EXTENDS Integers, Sequences, FiniteSets, TLC

VARIABLES
    variant,        \* which user-keyed server is running
    crashed,        \* an exception escaped a callback: the process is gone
    clients,        \* Map<string, Set<WS>>: userId -> insertion-ordered set
    readyState,     \* ws.readyState of every connection
    sockAlive,      \* the socket still delivers frames, pongs and errors
    peerGone,       \* the peer has vanished without closing: it answers nothing
    registered,     \* the closure variable `registered` of every connection
    userId,         \* ws.userId
    isAlive,        \* ws.isAlive of the sockets in wss.clients
    errored,        \* the "error" handler has run
    removeCalls,    \* number of remove / removeClient invocations
    out,            \* the ws.send and ws.close calls of the last callback, in order
    last,           \* the last callback and the connection it ran for
    jReadyState,    \* job server: readyState of every connection
    clientIds,      \* job server: Map<WS, string>
    clientJobs,     \* job server: Map<WS, Set<string>>
    jobSubscriptions \* job server: Map<string, WS>

connVars == <<readyState, sockAlive, registered, userId, isAlive>>
histVars == <<errored, removeCalls>>
userVars == <<variant, peerGone, crashed, clients, connVars, histVars>>
jobVars  == <<jReadyState, clientIds, clientJobs, jobSubscriptions>>
vars     == <<userVars, out, last, jobVars>>

(***************************************************************************)
(* Bounds                                                                  *)
(***************************************************************************)
MaxConns == 2

Conns == 1..MaxConns

(***************************************************************************)
(* JavaScript values                                                       *)
(***************************************************************************)
Undefined   == "<undefined>"
NumberValue == "<number>"        \* a JSON number such as 7: truthy, not a string
UserIds     == {"", "u1"}        \* the strings a client may register as
JobIds      == {"", "j1", "j2"}

\* JS truthiness of the values above: undefined and "" are falsy.
Truthy(v) == v # Undefined /\ v # ""

TypeofString(v) == v # Undefined /\ v # NumberValue

\* A decoded JSON object; an absent field is Undefined (JSON.stringify drops it).
Obj == [json |-> "object", type |-> Undefined, userId |-> Undefined,
        action |-> Undefined, jobId |-> Undefined, productId |-> Undefined,
        status |-> Undefined, productName |-> Undefined, clientId |-> Undefined,
        extra |-> Undefined]

BadJson  == [Obj EXCEPT !.json = "bad"]     \* text JSON.parse throws on
NullJson == [Obj EXCEPT !.json = "null"]    \* the text "null"

\* JSON.parse: whether it throws, and whether a property read on its result throws.
ParseThrows(data) == data.json = "bad"
IsNull(data)      == data.json = "null"

(***************************************************************************)
(* Insertion-ordered Set (a JS Set) as a sequence without duplicates       *)
(***************************************************************************)
Range(s) == {s[i] : i \in 1..Len(s)}

SetAdd(s, x) == IF x \in Range(s) THEN s ELSE Append(s, x)

SetDelete(s, x) == SelectSeq(s, LAMBDA y : y # x)

\* Map.delete
MapDelete(m, k) == [x \in DOMAIN m \ {k} |-> m[x]]

\* Map.set
MapSet(m, k, v) == [x \in DOMAIN m \cup {k} |-> IF x = k THEN v ELSE m[x]]

NoMap == [x \in {} |-> {}]

(***************************************************************************)
(* Inputs                                                                  *)
(***************************************************************************)
\* Text frames a client may send to a user-keyed server.
Frames ==
    {BadJson, NullJson, [Obj EXCEPT !.type = "other", !.userId = "u1"]}
    \cup {[Obj EXCEPT !.type = "register", !.userId = u] :
            u \in UserIds \cup {NumberValue}}

Channels == {"new_screen_call", "problem_done"}

\* Messages published on a bus channel of a user-keyed server.
BusMessages ==
    {BadJson, NullJson}
    \cup {[Obj EXCEPT !.userId = u, !.productId = "p1", !.status = "done",
                      !.productName = "Widget", !.extra = "x"] :
            u \in UserIds \cup {Undefined}}

NoData == Obj

(***************************************************************************)
(* ws library calls                                                        *)
(***************************************************************************)
UnsupportedData == 1003

\* ws.send(data): the call, with the readyState it is made in.
wsSend(ws, data) ==
    [call |-> "send", to |-> ws, data |-> data, code |-> 0, rs |-> readyState[ws]]

\* ws.close(code, reason): the call, and the closing handshake it starts on an
\* open socket.
wsCloseCall(ws, code) ==
    [call |-> "close", to |-> ws, data |-> NoData, code |-> code, rs |-> readyState[ws]]

wsClose(ws) ==
    readyState' = [readyState EXCEPT ![ws] = IF @ = "OPEN" THEN "CLOSING" ELSE @]

\* ws.terminate(): destroys the socket; the "close" event follows.
wsTerminate(ws) ==
    /\ readyState' = [readyState EXCEPT ![ws] = "CLOSING"]
    /\ sockAlive' = [sockAlive EXCEPT ![ws] = FALSE]

\* wss.clients: the sockets whose "close" event has not been emitted yet.
wssClients == {ws \in Conns : readyState[ws] \in {"OPEN", "CLOSING"}}

(***************************************************************************)
(* Registry: src/index.ts 12-36 and src/unnamed/part_000 28-68             *)
(***************************************************************************)
add(uid, ws) ==
    /\ clients' = IF uid \in DOMAIN clients
                    THEN MapSet(clients, uid, SetAdd(clients[uid], ws))
                    ELSE MapSet(clients, uid, <<ws>>)
    /\ userId' = [userId EXCEPT ![ws] = uid]

addClient(uid, ws) ==
    /\ clients' = IF uid \in DOMAIN clients
                    THEN MapSet(clients, uid, SetAdd(clients[uid], ws))
                    ELSE MapSet(clients, uid, <<ws>>)
    /\ userId' = [userId EXCEPT ![ws] = uid]

\* The clients map that remove(ws) leaves.
remove(ws) ==
    LET id == userId[ws] IN
    IF ~Truthy(id) THEN clients
    ELSE IF id \notin DOMAIN clients THEN clients
    ELSE LET set == SetDelete(clients[id], ws) IN
         IF Len(set) = 0 THEN MapDelete(clients, id)
         ELSE MapSet(clients, id, set)

\* The clients map that removeClient(ws) leaves.
removeClient(ws) ==
    LET uid == userId[ws] IN
    IF ~Truthy(uid) THEN clients
    ELSE IF uid \notin DOMAIN clients THEN clients
    ELSE LET set == SetDelete(clients[uid], ws) IN
         IF Len(set) = 0 THEN MapDelete(clients, uid)
         ELSE MapSet(clients, uid, set)

\* send without its test of ws.readyState.
sendToAll(uid, payload) ==
    IF uid \notin DOMAIN clients THEN <<>>
    ELSE [i \in 1..Len(clients[uid]) |-> wsSend(clients[uid][i], payload)]

\* send that looks at every set of the map instead of the user's own.
sendBroadcast(uid, payload) ==
    LET all == {ws \in Conns : readyState[ws] = "OPEN"
                               /\ \E u \in DOMAIN clients : ws \in Range(clients[u])}
        seq == CHOOSE q \in [1..Cardinality(all) -> all] :
                   \A i, j \in 1..Cardinality(all) : i < j => q[i] < q[j]
    IN [i \in 1..Cardinality(all) |-> wsSend(seq[i], payload)]

\* The ws.send calls of send(userId, payload), in the set's iteration order.
send(uid, payload) ==
    IF uid \notin DOMAIN clients THEN <<>>
    ELSE LET open == SelectSeq(clients[uid], LAMBDA ws : readyState[ws] = "OPEN")
         IN [i \in 1..Len(open) |-> wsSend(open[i], payload)]

sendToUser(uid, payload) ==
    IF uid \notin DOMAIN clients THEN <<>>
    ELSE LET open == SelectSeq(clients[uid], LAMBDA ws : readyState[ws] = "OPEN")
         IN [i \in 1..Len(open) |-> wsSend(open[i], payload)]

(***************************************************************************)
(* Initial state                                                           *)
(***************************************************************************)
\* The routing key a bus callback reads from its message, for the label only.
Undecodable == "<undecodable>"

Label(op, ws) == [op |-> op, ws |-> ws, key |-> Undefined]

RoutedLabel(op, key) == [op |-> op, ws |-> 0, key |-> key]

InitUser ==
    /\ crashed = FALSE
    /\ clients = NoMap
    /\ readyState = [ws \in Conns |-> "NONE"]
    /\ sockAlive = [ws \in Conns |-> FALSE]
    /\ peerGone = [ws \in Conns |-> FALSE]
    /\ registered = [ws \in Conns |-> FALSE]
    /\ userId = [ws \in Conns |-> Undefined]
    /\ isAlive = NoMap
    /\ errored = [ws \in Conns |-> FALSE]
    /\ removeCalls = [ws \in Conns |-> 0]
    /\ out = <<>>
    /\ last = Label("init", 0)

InitJobs ==
    /\ jReadyState = [ws \in Conns |-> "NONE"]
    /\ clientIds = NoMap
    /\ clientJobs = NoMap
    /\ jobSubscriptions = NoMap

Init == variant \in {"index", "heartbeat"} /\ InitUser /\ InitJobs

(***************************************************************************)
(* wss.on("connection"): src/index.ts 38-39, src/unnamed/part_000 70-78    *)
(***************************************************************************)
Connect(ws) ==
    /\ ~crashed
    /\ readyState[ws] = "NONE"
    /\ \A k \in Conns : k < ws => readyState[k] # "NONE"
    /\ readyState' = [readyState EXCEPT ![ws] = "OPEN"]
    /\ sockAlive' = [sockAlive EXCEPT ![ws] = TRUE]
    /\ registered' = [registered EXCEPT ![ws] = FALSE]
    /\ isAlive' = IF variant = "heartbeat" THEN MapSet(isAlive, ws, TRUE) ELSE isAlive
    /\ out' = <<>>
    /\ last' = Label("connection", ws)
    /\ UNCHANGED <<variant, peerGone, crashed, clients, userId, histVars, jobVars>>

(***************************************************************************)
(* ws.on("message")                                                        *)
(***************************************************************************)
IsRegister(msg) == msg.type = "register" /\ TypeofString(msg.userId)

Ack(uid) == [Obj EXCEPT !.type = "registered", !.userId = uid]

\* An exception nothing catches ends the process: no callback runs any more.
Crash ==
    /\ crashed' = TRUE
    /\ out' = <<>>
    /\ UNCHANGED <<clients, connVars>>

\* src/index.ts 45-47: the register branch
registerIndex(ws, data) ==
    /\ add(data.userId, ws)
    /\ registered' = [registered EXCEPT ![ws] = TRUE]
    /\ out' = <<wsSend(ws, Ack(data.userId))>>
    /\ UNCHANGED <<crashed, readyState, sockAlive, isAlive>>

\* src/index.ts 49 and 52: ws.close(1003, reason)
rejectIndex(ws) ==
    /\ wsClose(ws)
    /\ out' = <<wsCloseCall(ws, UnsupportedData)>>
    /\ UNCHANGED <<crashed, clients, sockAlive, registered, userId, isAlive>>

\* A handler that returns at once.
Ignore ==
    /\ out' = <<>>
    /\ UNCHANGED <<crashed, clients, connVars>>

\* onMessageIndex without its first line, `if (registered) return`.
onMessageIndexNoGuard(ws, data) ==
    IF ParseThrows(data) \/ IsNull(data) THEN rejectIndex(ws)
    ELSE IF IsRegister(data) THEN registerIndex(ws, data)
    ELSE rejectIndex(ws)

\* src/index.ts 40-54
onMessageIndex(ws, data) ==
    IF registered[ws] THEN Ignore
    ELSE IF ParseThrows(data) \/ IsNull(data)
    THEN \* JSON.parse or the read of msg.type throws: the catch block
         rejectIndex(ws)
    ELSE IF IsRegister(data) THEN registerIndex(ws, data)
    ELSE rejectIndex(ws)

\* src/unnamed/part_000 91-96: the register branch
registerHeartbeat(ws, data) ==
    /\ registered' = [registered EXCEPT ![ws] = TRUE]
    /\ addClient(data.userId, ws)
    /\ out' = <<wsSend(ws, Ack(data.userId))>>
    /\ UNCHANGED <<crashed, readyState, sockAlive, isAlive>>

\* src/unnamed/part_000 97-100
rejectHeartbeat(ws) ==
    /\ wsClose(ws)
    /\ out' = <<wsCloseCall(ws, UnsupportedData)>>
    /\ UNCHANGED <<crashed, clients, sockAlive, registered, userId, isAlive>>

\* src/unnamed/part_000 80-105
onMessageHeartbeat(ws, data) ==
    IF ParseThrows(data)
    THEN \* the catch block returns
         Ignore
    ELSE IF registered[ws] THEN Ignore
    ELSE IF IsNull(data)
    THEN \* the read of msg.type on null throws outside the try block
         Crash
    ELSE IF IsRegister(data) THEN registerHeartbeat(ws, data)
    ELSE rejectHeartbeat(ws)

ValidRegistration(data) == ~ParseThrows(data) /\ ~IsNull(data) /\ IsRegister(data)

Message(ws, data) ==
    /\ ~crashed
    /\ readyState[ws] \in {"OPEN", "CLOSING"}
    /\ sockAlive[ws]
    /\ ~peerGone[ws]
    /\ last' = Label("message", ws)
    /\ IF variant = "index" THEN onMessageIndex(ws, data) ELSE onMessageHeartbeat(ws, data)
    /\ UNCHANGED <<variant, peerGone, errored, removeCalls, jobVars>>

(***************************************************************************)
(* ws.on("close") and ws.on("error")                                       *)
(***************************************************************************)
\* src/index.ts 55
onCloseIndex(ws) ==
    /\ clients' = remove(ws)
    /\ removeCalls' = [removeCalls EXCEPT ![ws] = @ + 1]

\* src/unnamed/part_000 107-110
onCloseHeartbeat(ws) ==
    /\ clients' = removeClient(ws)
    /\ removeCalls' = [removeCalls EXCEPT ![ws] = @ + 1]

\* The transport emits "close": the socket is gone and leaves wss.clients.
Close(ws) ==
    /\ ~crashed
    /\ readyState[ws] \in {"OPEN", "CLOSING"}
    /\ last' = Label("close", ws)
    /\ readyState' = [readyState EXCEPT ![ws] = "CLOSED"]
    /\ sockAlive' = [sockAlive EXCEPT ![ws] = FALSE]
    /\ isAlive' = MapDelete(isAlive, ws)
    /\ IF variant = "index" THEN onCloseIndex(ws) ELSE onCloseHeartbeat(ws)
    /\ out' = <<>>
    /\ UNCHANGED <<variant, peerGone, crashed, registered, userId, errored, jobVars>>

\* onErrorIndex without its call of remove.
onErrorIndexNoRemove(ws) ==
    /\ UNCHANGED <<clients, removeCalls>>
    /\ readyState' = [readyState EXCEPT ![ws] = "CLOSING"]
    /\ sockAlive' = [sockAlive EXCEPT ![ws] = FALSE]

\* src/index.ts 56: the library has already begun closing the socket.
onErrorIndex(ws) ==
    /\ clients' = remove(ws)
    /\ removeCalls' = [removeCalls EXCEPT ![ws] = @ + 1]
    /\ readyState' = [readyState EXCEPT ![ws] = "CLOSING"]
    /\ sockAlive' = [sockAlive EXCEPT ![ws] = FALSE]

\* src/unnamed/part_000 111-119
onErrorHeartbeat(ws) ==
    /\ clients' = removeClient(ws)
    /\ removeCalls' = [removeCalls EXCEPT ![ws] = @ + 1]
    /\ wsTerminate(ws)

\* The transport emits "error" (at most once, a "close" follows it).
Error(ws) ==
    /\ ~crashed
    /\ readyState[ws] \in {"OPEN", "CLOSING"}
    /\ sockAlive[ws]
    /\ last' = Label("error", ws)
    /\ IF variant = "index" THEN onErrorIndex(ws) ELSE onErrorHeartbeat(ws)
    /\ errored' = [errored EXCEPT ![ws] = TRUE]
    /\ out' = <<>>
    /\ UNCHANGED <<variant, peerGone, crashed, registered, userId, isAlive, jobVars>>

(***************************************************************************)
(* Heartbeat: src/unnamed/part_000 74-78 and 123-134                       *)
(***************************************************************************)
\* A pong handler that forgets the flag.
onPongForgets(ws) == isAlive' = isAlive

onPong(ws) == isAlive' = [isAlive EXCEPT ![ws] = TRUE]

Pong(ws) ==
    /\ ~crashed
    /\ variant = "heartbeat"
    /\ readyState[ws] \in {"OPEN", "CLOSING"}
    /\ sockAlive[ws]
    /\ ~peerGone[ws]
    /\ last' = Label("pong", ws)
    /\ onPong(ws)
    /\ out' = <<>>
    /\ UNCHANGED <<variant, peerGone, crashed, clients, readyState, sockAlive, registered, userId,
                   histVars, jobVars>>

\* The pass without `ws.isAlive = false`.
heartbeatKeepsFlag ==
    LET dead == {ws \in wssClients : isAlive[ws] = FALSE} IN
    /\ readyState' = [ws \in Conns |-> IF ws \in dead THEN "CLOSING" ELSE readyState[ws]]
    /\ sockAlive' = [ws \in Conns |-> IF ws \in dead THEN FALSE ELSE sockAlive[ws]]
    /\ isAlive' = isAlive

\* The setInterval callback: one pass over wss.clients.
heartbeat ==
    LET dead == {ws \in wssClients : isAlive[ws] = FALSE} IN
    /\ readyState' = [ws \in Conns |-> IF ws \in dead THEN "CLOSING" ELSE readyState[ws]]
    /\ sockAlive' = [ws \in Conns |-> IF ws \in dead THEN FALSE ELSE sockAlive[ws]]
    /\ isAlive' = [ws \in wssClients |-> IF ws \in dead THEN isAlive[ws] ELSE FALSE]

Tick ==
    /\ ~crashed
    /\ variant = "heartbeat"
    /\ last' = Label("tick", 0)
    /\ heartbeat
    /\ out' = <<>>
    /\ UNCHANGED <<variant, peerGone, crashed, clients, registered, userId, histVars, jobVars>>

\* The peer of ws vanishes (power loss, cable pulled): the connection is
\* half-open, nothing arrives on it any more, ws.ping() gets no pong.
PeerDies(ws) ==
    /\ ~crashed
    /\ variant = "heartbeat"
    /\ readyState[ws] \in {"OPEN", "CLOSING"}
    /\ sockAlive[ws]
    /\ ~peerGone[ws]
    /\ peerGone' = [peerGone EXCEPT ![ws] = TRUE]
    /\ out' = <<>>
    /\ last' = Label("peer-dies", ws)
    /\ UNCHANGED <<variant, crashed, clients, connVars, histVars, jobVars>>

(***************************************************************************)
(* Bus subscriptions: src/index.ts 63-83, src/unnamed/part_000 155-183     *)
(***************************************************************************)
\* m?.userId of a parsed message
OptUserId(m) == IF IsNull(m) THEN Undefined ELSE m.userId

ProblemDone(m) ==
    [Obj EXCEPT !.type = "problem_done", !.productId = m.productId,
                !.status = m.status, !.productName = m.productName]

\* src/index.ts 63-70
onNewScreenCallIndex(message) ==
    IF ParseThrows(message) THEN <<>>
    ELSE IF Truthy(OptUserId(message))
         THEN send(message.userId, [Obj EXCEPT !.type = "new_screen_call"])
         ELSE <<>>

\* src/index.ts 72-83
onProblemDoneIndex(message) ==
    IF ParseThrows(message) THEN <<>>
    ELSE IF Truthy(OptUserId(message))
         THEN send(message.userId, ProblemDone(message))
         ELSE <<>>

\* src/unnamed/part_000 155-167
onNewScreenCallHeartbeat(message) ==
    IF ParseThrows(message) THEN <<>>
    ELSE IF ~Truthy(OptUserId(message)) THEN <<>>
    ELSE sendToUser(message.userId,
                    [Obj EXCEPT !.type = "new_screen_call", !.userId = message.userId])

\* src/unnamed/part_000 169-183
onProblemDoneHeartbeat(message) ==
    IF ParseThrows(message) THEN <<>>
    ELSE IF ~Truthy(OptUserId(message)) THEN <<>>
    ELSE sendToUser(message.userId, ProblemDone(message))

\* The userId the callback routes by, if it gets that far.
RoutingKey(message) == IF ParseThrows(message) THEN Undecodable ELSE OptUserId(message)

\* What the subscription callback of `channel` sends for `message`.
Routed(channel, message) ==
    IF variant = "index"
    THEN IF channel = "new_screen_call"
         THEN onNewScreenCallIndex(message)
         ELSE onProblemDoneIndex(message)
    ELSE IF channel = "new_screen_call"
         THEN onNewScreenCallHeartbeat(message)
         ELSE onProblemDoneHeartbeat(message)

\* BusEvent whose fanout also drops the connections it finds not open.
BusEventPrunes(channel, message) ==
    /\ ~crashed
    /\ last' = RoutedLabel("bus", RoutingKey(message))
    /\ out' = Routed(channel, message)
    /\ clients' = [u \in DOMAIN clients |->
                     IF u = RoutingKey(message)
                     THEN SelectSeq(clients[u], LAMBDA ws : readyState[ws] = "OPEN")
                     ELSE clients[u]]
    /\ UNCHANGED <<variant, peerGone, crashed, connVars, histVars, jobVars>>

\* BusEvent whose callback has no try/catch around JSON.parse.
BusEventNoCatch(channel, message) ==
    /\ ~crashed
    /\ last' = RoutedLabel("bus", RoutingKey(message))
    /\ crashed' = ParseThrows(message)
    /\ out' = Routed(channel, message)
    /\ UNCHANGED <<variant, peerGone, clients, connVars, histVars, jobVars>>

BusEvent(channel, message) ==
    /\ ~crashed
    /\ last' = RoutedLabel("bus", RoutingKey(message))
    /\ out' = Routed(channel, message)
    /\ UNCHANGED <<userVars, jobVars>>

(***************************************************************************)
(* The user-keyed servers                                                  *)
(***************************************************************************)
Next ==
    \/ \E ws \in Conns : Connect(ws)
    \/ \E ws \in Conns, data \in Frames : Message(ws, data)
    \/ \E ws \in Conns : Close(ws)
    \/ \E ws \in Conns : Error(ws)
    \/ \E ws \in Conns : Pong(ws)
    \/ Tick
    \/ \E channel \in Channels, message \in BusMessages : BusEvent(channel, message)

Spec == Init /\ [][Next]_vars

\* The connections and the monitor of src/unnamed/part_000, with peers that
\* may vanish; the bus callbacks, which touch none of this, are left out, and
\* one identity is enough, the monitor never reads it.
InitHeartbeat == variant = "heartbeat" /\ InitUser /\ InitJobs

MonitorFrames == {data \in Frames : data.userId # ""}

NextHalfOpen ==
    \/ \E ws \in Conns : Connect(ws)
    \/ \E ws \in Conns, data \in MonitorFrames : Message(ws, data)
    \/ \E ws \in Conns : Close(ws)
    \/ \E ws \in Conns : Error(ws)
    \/ \E ws \in Conns : Pong(ws)
    \/ Tick
    \/ \E ws \in Conns : PeerDies(ws)

SpecHalfOpen == InitHeartbeat /\ [][NextHalfOpen]_vars

\* The server of src/index.ts 1-92 alone: it has no heartbeat.
InitIndex == variant = "index" /\ InitUser /\ InitJobs

NextIndex ==
    \/ \E ws \in Conns : Connect(ws)
    \/ \E ws \in Conns, data \in Frames : Message(ws, data)
    \/ \E ws \in Conns : Close(ws)
    \/ \E ws \in Conns : Error(ws)
    \/ \E channel \in Channels, message \in BusMessages : BusEvent(channel, message)

SpecIndex == InitIndex /\ [][NextIndex]_vars

(***************************************************************************)
(* A ws.send that throws.  ws.send is library code; the loops of send and  *)
(* sendToUser call it with nothing around the call, so an exception leaves *)
(* the loop and is caught by the try/catch of the subscription callback.   *)
(***************************************************************************)
\* The calls of a fanout whose ws.send on `bad` throws: the loop ends there.
fanoutUntilThrow(calls, bad) ==
    LET k == CHOOSE i \in 1..Len(calls) :
                 /\ calls[i].to = bad
                 /\ \A j \in 1..(i - 1) : calls[j].to # bad
    IN Append(SubSeq(calls, 1, k - 1), [calls[k] EXCEPT !.call = "send throws"])

BusEventThrow(channel, message, bad) ==
    /\ ~crashed
    /\ last' = RoutedLabel("bus", RoutingKey(message))
    /\ \E i \in 1..Len(Routed(channel, message)) : Routed(channel, message)[i].to = bad
    /\ out' = fanoutUntilThrow(Routed(channel, message), bad)
    /\ UNCHANGED <<userVars, jobVars>>

NextSendFails ==
    \/ Next
    \/ \E channel \in Channels, message \in BusMessages, bad \in Conns :
          BusEventThrow(channel, message, bad)

SpecSendFails == Init /\ [][NextSendFails]_vars

(***************************************************************************)
(* The job server: src/index.ts 294-384                                    *)
(***************************************************************************)
\* Text frames a client may send to the job server.
JobFrames ==
    {BadJson, NullJson, [Obj EXCEPT !.action = "other", !.jobId = "j1"]}
    \cup {[Obj EXCEPT !.action = "subscribe", !.jobId = j] : j \in JobIds \cup {Undefined}}

\* Messages published on the job-updates channel.
JobUpdates ==
    {BadJson, NullJson}
    \cup {[Obj EXCEPT !.jobId = j, !.status = "done", !.extra = "x"] :
            j \in JobIds \cup {Undefined}}

\* ServerWebSocket.send(data): the call, with the readyState it is made in.
jobSend(ws, data) ==
    [call |-> "send", to |-> ws, data |-> data, code |-> 0, rs |-> jReadyState[ws]]

\* crypto.randomUUID(): a fresh identifier for every connection
randomUUID(ws) == ToString(ws)

InitJobServer == variant = "jobs" /\ InitUser /\ InitJobs

\* websocket.open: src/index.ts 344-350
open(ws) ==
    /\ jReadyState[ws] = "NONE"
    /\ \A k \in Conns : k < ws => jReadyState[k] # "NONE"
    /\ jReadyState' = [jReadyState EXCEPT ![ws] = "OPEN"]
    /\ clientIds' = MapSet(clientIds, ws, randomUUID(ws))
    /\ clientJobs' = MapSet(clientJobs, ws, {})
    /\ out' = <<[call |-> "send", to |-> ws, code |-> 0, rs |-> "OPEN",
                 data |-> [Obj EXCEPT !.type = "connected", !.clientId = randomUUID(ws)]]>>
    /\ last' = Label("open", ws)
    /\ UNCHANGED <<jobSubscriptions, userVars>>

\* A subscription that keeps the job's first subscriber.
subscribeJobKeepFirst(jobId, ws) ==
    IF jobId \in DOMAIN jobSubscriptions THEN jobSubscriptions
    ELSE MapSet(jobSubscriptions, jobId, ws)

\* src/index.ts 357: jobSubscriptions.set(data.jobId, ws)
subscribeJob(jobId, ws) == MapSet(jobSubscriptions, jobId, ws)

\* websocket.message: src/index.ts 351-367
message(ws, data) ==
    /\ jReadyState[ws] = "OPEN"
    /\ IF ParseThrows(data) \/ IsNull(data)
       THEN \* JSON.parse or the read of data.action throws: the catch block
            /\ out' = <<>>
            /\ UNCHANGED <<jobSubscriptions, clientJobs>>
       ELSE IF data.action = "subscribe" /\ Truthy(data.jobId)
       THEN /\ jobSubscriptions' = subscribeJob(data.jobId, ws)
            /\ clientJobs' = IF ws \in DOMAIN clientJobs
                             THEN MapSet(clientJobs, ws, clientJobs[ws] \cup {data.jobId})
                             ELSE clientJobs
            /\ out' = <<jobSend(ws, [Obj EXCEPT !.type = "subscribed",
                                                !.jobId = data.jobId])>>
       ELSE /\ out' = <<>>
            /\ UNCHANGED <<jobSubscriptions, clientJobs>>
    /\ last' = Label("message", ws)
    /\ UNCHANGED <<jReadyState, clientIds, userVars>>

\* close without the clean-up of the job subscriptions.
closeLeavesJobs(ws) ==
    /\ jReadyState[ws] = "OPEN"
    /\ jReadyState' = [jReadyState EXCEPT ![ws] = "CLOSED"]
    /\ clientIds' = MapDelete(clientIds, ws)
    /\ clientJobs' = MapDelete(clientJobs, ws)
    /\ out' = <<>>
    /\ last' = Label("close", ws)
    /\ UNCHANGED <<jobSubscriptions, userVars>>

\* websocket.close: src/index.ts 368-380
close(ws) ==
    /\ jReadyState[ws] = "OPEN"
    /\ jReadyState' = [jReadyState EXCEPT ![ws] = "CLOSED"]
    /\ LET jobs == IF ws \in DOMAIN clientJobs THEN clientJobs[ws] ELSE {} IN
       jobSubscriptions' = [j \in DOMAIN jobSubscriptions \ jobs |-> jobSubscriptions[j]]
    /\ clientIds' = MapDelete(clientIds, ws)
    /\ clientJobs' = MapDelete(clientJobs, ws)
    /\ out' = <<>>
    /\ last' = Label("close", ws)
    /\ UNCHANGED userVars

\* What redis.on("message") sends for msg: src/index.ts 312-334
onJobUpdate(msg) ==
    IF ParseThrows(msg) \/ IsNull(msg) THEN <<>>
    ELSE IF msg.jobId \in DOMAIN jobSubscriptions
            /\ jReadyState[jobSubscriptions[msg.jobId]] = "OPEN"
         THEN <<jobSend(jobSubscriptions[msg.jobId], msg)>>
         ELSE <<>>

JobUpdate(msg) ==
    /\ out' = onJobUpdate(msg)
    /\ last' = RoutedLabel("job-update",
                            IF ParseThrows(msg) THEN Undecodable
                            ELSE IF IsNull(msg) THEN Undefined ELSE msg.jobId)
    /\ UNCHANGED <<jobVars, userVars>>

NextJobs ==
    \/ \E ws \in Conns : open(ws)
    \/ \E ws \in Conns, data \in JobFrames : message(ws, data)
    \/ \E ws \in Conns : close(ws)
    \/ \E msg \in JobUpdates : JobUpdate(msg)

SpecJobs == InitJobServer /\ [][NextJobs]_vars

(***************************************************************************)
(* The three servers side by side, for what is claimed of all of them      *)
(***************************************************************************)
InitAll == Init \/ InitJobServer

NextAll ==
    \/ variant # "jobs" /\ Next
    \/ variant = "jobs" /\ NextJobs

SpecAll == InitAll /\ [][NextAll]_vars

(***************************************************************************)
(* Properties                                                              *)
(***************************************************************************)
\* ws is a member of some user's set in the map cl.
InRegistryOf(cl, ws) == \E u \in DOMAIN cl : ws \in Range(cl[u])

\* Number of ws.send calls on ws among the calls o.
Sends(o, ws) == Cardinality({i \in 1..Len(o) : o[i].call = "send" /\ o[i].to = ws})

\* The clients map another remove of ws would leave.
RemoveAgain(ws) == IF variant = "index" THEN remove(ws) ELSE removeClient(ws)

\* The message decodes to an object.
Decodes(m) == ~ParseThrows(m) /\ ~IsNull(m)

\* C1. Clean removal: once the close or error handler of a connection has run,
\* no user set of the registry contains the connection, whatever identity it
\* registered with (the empty string included), and one more remove of it
\* changes nothing.
C1_CleanRemoval ==
    \A ws \in Conns :
        removeCalls[ws] >= 1 =>
            /\ ~InRegistryOf(clients, ws)
            /\ RemoveAgain(ws) = clients

\* The case of C1: a connection registered with the empty string has closed.
C1_Case ==
    \E ws \in Conns : userId[ws] = "" /\ readyState[ws] = "CLOSED" /\ removeCalls[ws] >= 1

\* C2. No empty sets persist: every key of the clients map maps to a non-empty
\* set, and once every connection that registered has closed the map is empty.
C2_NoEmptySets ==
    /\ \A u \in DOMAIN clients : Len(clients[u]) > 0
    /\ (\A ws \in Conns : registered[ws] => readyState[ws] = "CLOSED")
          => DOMAIN clients = {}

\* C3. Multiplicity: one bus event for user U produces exactly one send on every
\* open connection registered under U, and none on a connection of U that has
\* closed.
C3_Multiplicity ==
    [][\A channel \in Channels, m \in BusMessages, ws \in Conns :
          (/\ BusEvent(channel, m)
           /\ Decodes(m)
           /\ registered[ws]
           /\ userId[ws] = m.userId)
          => /\ readyState[ws] = "OPEN" => Sends(out', ws) = 1
             /\ readyState[ws] = "CLOSED" => Sends(out', ws) = 0]_vars

\* C4. Last-writer-wins for jobs: a subscribe of connection B to job J binds J
\* to B, replacing any earlier subscriber A; a job-update for J is then sent
\* once to the connection J is bound to (if open) and to no other connection.
C4_LastWriterWins ==
    [][/\ \A ws \in Conns, data \in JobFrames :
            (/\ message(ws, data)
             /\ Decodes(data)
             /\ data.action = "subscribe"
             /\ Truthy(data.jobId))
            => /\ data.jobId \in DOMAIN jobSubscriptions'
               /\ jobSubscriptions'[data.jobId] = ws
       /\ \A msg \in JobUpdates, a \in Conns :
            (/\ JobUpdate(msg)
             /\ Decodes(msg)
             /\ msg.jobId \in DOMAIN jobSubscriptions)
            => LET b == jobSubscriptions[msg.jobId] IN
               /\ a # b => Sends(out', a) = 0
               /\ jReadyState[b] = "OPEN" => Sends(out', b) = 1]_vars

\* A and B, both open, have both subscribed to job J, J is bound to B, and the
\* update for J that was just routed went to B alone.
C4_Witness ==
    \E a, b \in Conns, j \in JobIds :
        /\ a # b
        /\ jReadyState[a] = "OPEN" /\ jReadyState[b] = "OPEN"
        /\ j \in clientJobs[a] /\ j \in clientJobs[b]
        /\ j \in DOMAIN jobSubscriptions /\ jobSubscriptions[j] = b
        /\ last.op = "job-update"
        /\ Len(out) = 1 /\ out[1].to = b /\ out[1].data.jobId = j

\* C5. Removing a connection deletes only the job entries of which it is the
\* current subscriber: a job bound to another connection stays bound to it
\* when this one closes.
C5_RemoveOnlyOwn ==
    [][\A ws \in Conns, j \in JobIds :
          (/\ close(ws)
           /\ j \in DOMAIN jobSubscriptions
           /\ jobSubscriptions[j] # ws)
          => /\ j \in DOMAIN jobSubscriptions'
             /\ jobSubscriptions'[j] = jobSubscriptions[j]]_vars

\* C6. Register-once: a registered connection stays registered, its userId never
\* changes once set, and any message on a registered connection leaves the
\* clients map and every userId unchanged and sends nothing.
C6_RegisterOnce ==
    [][\A ws \in Conns :
          /\ registered[ws] => registered'[ws]
          /\ userId[ws] # Undefined => userId'[ws] = userId[ws]
          /\ (/\ registered[ws]
               /\ last' = Label("message", ws)
               /\ \E data \in Frames : Message(ws, data))
               => /\ clients' = clients
                  /\ userId' = userId
                  /\ out' = <<>>]_vars

\* A message has just been handled on a connection that was already registered
\* (a registration would have sent the acknowledgment).
C6_Witness ==
    /\ last.op = "message"
    /\ registered[last.ws]
    /\ readyState[last.ws] = "OPEN"
    /\ out = <<>>

\* C7. Protocol violation: a pending connection that receives a frame that is not
\* a valid registration is closed with code 1003 and is not in the registry,
\* and a pending connection that is being closed for it stays out of the
\* registry whatever arrives before its close event.  (A connection is pending
\* exactly as long as every frame it got, its first included, was no valid
\* registration.)
C7_ProtocolViolation ==
    [][\A ws \in Conns :
          /\ \A data \in Frames :
               (Message(ws, data) /\ ~registered[ws] /\ ~ValidRegistration(data))
               => /\ readyState'[ws] = "CLOSING"
                  /\ readyState[ws] = "OPEN"
                       => out' = <<wsCloseCall(ws, UnsupportedData)>>
                  /\ ~InRegistryOf(clients', ws)
          /\ (readyState[ws] = "CLOSING" /\ sockAlive[ws] /\ ~registered[ws])
               => ~InRegistryOf(clients', ws)]_vars

\* C8. A first frame that is not decodable JSON closes the pending connection
\* with code 1003 and leaves it unregistered.
C8_BadJsonCloses ==
    [][\A ws \in Conns :
          (Message(ws, BadJson) /\ ~registered[ws] /\ readyState[ws] = "OPEN")
          => /\ out' = <<wsCloseCall(ws, UnsupportedData)>>
             /\ readyState'[ws] = "CLOSING"
             /\ ~registered'[ws]]_vars

\* C9. Heartbeat reap: a tick terminates every tracked connection whose probe of
\* the previous tick is unanswered (isAlive is false), registered or not, and
\* when the close event of a terminated connection is processed the
\* connection is no longer in the registry.
C9_HeartbeatReap ==
    [][/\ Tick => \A ws \in wssClients :
                    isAlive[ws] = FALSE
                    => readyState'[ws] = "CLOSING" /\ ~sockAlive'[ws]
       /\ \A ws \in Conns :
            (Close(ws) /\ variant = "heartbeat" /\ ~sockAlive[ws])
            => ~InRegistryOf(clients', ws)]_vars

\* C10 as stated: once the error or close handler of a connection has run,
\* remove has been invoked for it exactly once.
C10_RemoveExactlyOnce ==
    \A ws \in Conns :
        (errored[ws] \/ readyState[ws] = "CLOSED") => removeCalls[ws] = 1

\* C10, amended. remove is invoked once by every handler that runs for the
\* connection: once by the error handler and once by the close handler.
C10_RemovePerHandler ==
    \A ws \in Conns :
        removeCalls[ws] = (IF errored[ws] THEN 1 ELSE 0)
                          + (IF readyState[ws] = "CLOSED" THEN 1 ELSE 0)

\* An error was followed by the close: remove ran twice for the connection.
C10_Witness ==
    \E ws \in Conns :
        errored[ws] /\ readyState[ws] = "CLOSED" /\ removeCalls[ws] = 2

\* The user has no entry in the registry, or none of its connections is open.
NoOpenConnection(u) ==
    u \notin DOMAIN clients \/ \A ws \in Range(clients[u]) : readyState[ws] # "OPEN"

\* The payloads the router sends.
IsEventPayload(d) == d.type \in Channels

\* C11. Fire-and-forget: routing an event for a user with no registry entry, or
\* whose connections are all not open, makes no send and raises no error; the
\* event is kept nowhere, so no later callback (a registration for that user
\* included) sends an event payload: only the callback that processes a bus
\* event does, and a registration sends the acknowledgment alone.
C11_FireAndForget ==
    [][/\ (\E m \in BusMessages :
              /\ Decodes(m)
              /\ TypeofString(m.userId)
              /\ NoOpenConnection(m.userId)
              /\ \E channel \in Channels : BusEvent(channel, m))
            => out' = <<>> /\ ~crashed'
       /\ last'.op # "bus"
            => \A i \in 1..Len(out') : ~IsEventPayload(out'[i].data)
       /\ \A ws \in Conns :
            (~registered[ws] /\ registered'[ws])
            => \A data \in Frames :
                 Message(ws, data) => out' = <<wsSend(ws, Ack(data.userId))>>]_vars

\* An event for u1 has just been routed while u1's entry held only connections
\* that are not open: nothing was sent.
C11_Witness ==
    /\ last.op = "bus" /\ last.key = "u1"
    /\ "u1" \in DOMAIN clients
    /\ NoOpenConnection("u1")
    /\ out = <<>>
    /\ ~crashed

\* A bus message that is undecodable or has no routing key.
MalformedEvent(m) == ParseThrows(m) \/ IsNull(m) \/ m.userId = Undefined

MalformedUpdate(m) == ParseThrows(m) \/ IsNull(m) \/ m.jobId = Undefined

\* C12. Malformed bus events are contained: a bus message that is undecodable or
\* lacks its routing key (userId; jobId on the job server) makes no send,
\* changes nothing of the registry or of any connection, raises no error, and
\* leaves what every later event would be routed to as it was.
C12_MalformedContained ==
    [][/\ (/\ last'.op = "bus"
            /\ last'.key \in {Undecodable, Undefined}
            /\ \E m \in BusMessages :
                 MalformedEvent(m) /\ \E channel \in Channels : BusEvent(channel, m))
            => /\ out' = <<>>
               /\ clients' = clients
               /\ UNCHANGED connVars
               /\ ~crashed'
               /\ \A c2 \in Channels, m2 \in BusMessages :
                    ~MalformedEvent(m2) => Routed(c2, m2)' = Routed(c2, m2)
       /\ (/\ last'.op = "job-update"
            /\ \E m \in JobUpdates : MalformedUpdate(m) /\ JobUpdate(m))
            => /\ out' = <<>>
               /\ UNCHANGED jobVars
               /\ \A m2 \in JobUpdates :
                    ~MalformedUpdate(m2) => onJobUpdate(m2)' = onJobUpdate(m2)]_vars

\* A malformed event has just been dropped while an open connection is
\* registered under u1, which an event for u1 still reaches.
C12_Witness ==
    /\ last.op = "bus" /\ last.key \in {Undecodable, Undefined}
    /\ out = <<>>
    /\ ~crashed
    /\ \E ws \in Conns, c \in Channels, m \in BusMessages :
          /\ registered[ws] /\ userId[ws] = "u1" /\ readyState[ws] = "OPEN"
          /\ Decodes(m) /\ m.userId = "u1"
          /\ Sends(Routed(c, m), ws) = 1

\* Number of ws.send calls made on ws among the calls o, those that threw included.
Attempts(o, ws) ==
    Cardinality({i \in 1..Len(o) : o[i].call \in {"send", "send throws"} /\ o[i].to = ws})

\* C13. Fanout independence: when the send of an event for user U throws on one
\* open connection of U, the send is still attempted on every other open
\* connection of U for that event.
C13_FanoutIndependence ==
    [][\A channel \in Channels, m \in BusMessages, bad \in Conns :
          BusEventThrow(channel, m, bad)
          => \A ws \in Range(clients[m.userId]) :
                readyState[ws] = "OPEN" => Attempts(out', ws) = 1]_vars

\* C14. Transport failure is connection death: once a send to a connection has
\* failed during routing, remove has run for it and no registry entry
\* references it.
C14_FailedSendRemoves ==
    [][\A channel \in Channels, m \in BusMessages, bad \in Conns :
          BusEventThrow(channel, m, bad)
          => /\ ~InRegistryOf(clients', bad)
             /\ removeCalls'[bad] > removeCalls[bad]]_vars

\* The fields of a bus event that the router does not set itself.
EventFields == {"userId", "jobId", "productId", "status", "productName", "extra"}

\* Every field the event has is in the payload, with the same value.
PassedThrough(m, payload) ==
    \A f \in EventFields : m[f] # Undefined => payload[f] = m[f]

\* C15. Field pass-through: every payload sent for a bus event carries each
\* field of the decoded event, other than the type the router sets, with the
\* event's value; for new_screen_call and problem_done as for job-updates.
C15_FieldPassThrough ==
    [][/\ \A channel \in Channels, m \in BusMessages :
            BusEvent(channel, m)
            => \A i \in 1..Len(out') : PassedThrough(m, out'[i].data)
       /\ \A m \in JobUpdates :
            (variant = "jobs" /\ JobUpdate(m))
            => \A i \in 1..Len(out') : PassedThrough(m, out'[i].data)]_vars

\* C16. Acknowledged registration implies routability: when the callback that
\* sends the `registered` acknowledgment for U on a connection returns, the
\* connection is in U's set, and every bus event for U processed while the
\* acknowledged connection is open is sent on it.
C16_AckImpliesRoutable ==
    [][/\ \A ws \in Conns, data \in Frames :
            (Message(ws, data) /\ Sends(out', ws) > 0)
            => /\ out' = <<wsSend(ws, Ack(data.userId))>>
               /\ data.userId \in DOMAIN clients'
               /\ ws \in Range(clients'[data.userId])
       /\ \A channel \in Channels, m \in BusMessages, ws \in Conns :
            (/\ BusEvent(channel, m)
             /\ Decodes(m)
             /\ TypeofString(m.userId)
             /\ registered[ws]
             /\ userId[ws] = m.userId
             /\ readyState[ws] = "OPEN")
            => \E i \in 1..Len(out') : out'[i].call = "send" /\ out'[i].to = ws]_vars

\* C17. Sends go only to open sockets: no callback, in any interleaving, calls
\* ws.send (for an event payload or for the acknowledgment) on a connection
\* whose readyState is not OPEN at the call.
C17_SendsOnlyOpen ==
    \A i \in 1..Len(out) : out[i].call = "send" => out[i].rs = "OPEN"

\* The monitor's tick destroyed the socket of ws in this step.
Reaped(ws) == last'.op = "tick" /\ sockAlive[ws] /\ ~sockAlive'[ws]

\* C18. A responsive connection is never reaped: a processed pong sets the
\* flag, only the tick's probe clears it, and a tick does not terminate a
\* connection whose flag is set; so a connection whose pong for every probe is
\* processed before the next tick survives every tick, whatever the other
\* connections do.
C18_ResponsiveNotReaped ==
    [][\A ws \in Conns :
          /\ Pong(ws) => isAlive'[ws] = TRUE
          /\ (ws \in DOMAIN isAlive /\ ws \in DOMAIN isAlive'
                /\ isAlive[ws] /\ ~isAlive'[ws]) => last'.op = "tick"
          /\ (ws \in DOMAIN isAlive /\ isAlive[ws]) => ~Reaped(ws)]_vars

\* Connection 1, which connected first, is still open after the tick that found
\* connection 2 dead: connection 1 answered the probe that connection 2 did not.
C18_Witness ==
    /\ last.op = "tick"
    /\ readyState[1] = "OPEN" /\ sockAlive[1]
    /\ readyState[2] = "CLOSING" /\ ~sockAlive[2] /\ ~errored[2]

\* The monitor's tick terminated ws in this step.
Terminated(ws) == readyState'[ws] = "CLOSING" /\ ~sockAlive'[ws]

\* C19 as stated: a connection whose peer has stopped answering is terminated
\* at the first tick that follows, whenever between two ticks the peer
\* vanished.
C19_ReapedAtFirstTick ==
    [][Tick => \A ws \in wssClients : peerGone[ws] => Terminated(ws)]_vars

\* C19, amended. A tick terminates a vanished connection whose probe is
\* outstanding; one that had answered the latest probe gets a new probe at the
\* first tick, its flag then stays cleared, and the second tick terminates it.
C19_ReapedBySecondTick ==
    [][/\ Tick
            => \A ws \in wssClients :
                 peerGone[ws]
                 => IF isAlive[ws] THEN isAlive'[ws] = FALSE ELSE Terminated(ws)
       /\ \A ws \in DOMAIN isAlive :
            (peerGone[ws] /\ ~isAlive[ws] /\ ws \in DOMAIN isAlive')
            => ~isAlive'[ws]]_vars

\* A connection whose peer vanished after answering a probe has survived the
\* first tick after that: the tick only sent it a new probe.
C19_Witness ==
    \E ws \in Conns :
        /\ last.op = "tick"
        /\ peerGone[ws]
        /\ readyState[ws] = "OPEN" /\ sockAlive[ws]
        /\ isAlive[ws] = FALSE

\* C20. No dangling job subscription: on the job server, every connection that
\* is a value of jobSubscriptions is open and tracked (a key of clientIds and
\* of clientJobs), and the job bound to it is in its own job set.
C20_NoDanglingSubscription ==
    \A j \in DOMAIN jobSubscriptions :
        LET ws == jobSubscriptions[j] IN
        /\ jReadyState[ws] = "OPEN"
        /\ ws \in DOMAIN clientIds
        /\ ws \in DOMAIN clientJobs
        /\ j \in clientJobs[ws]

\* A connection that had subscribed has just closed while another connection
\* still holds a job.
C20_Witness ==
    /\ last.op = "close"
    /\ jReadyState[last.ws] = "CLOSED"
    /\ \E j \in DOMAIN jobSubscriptions : jobSubscriptions[j] # last.ws

\* C21. Routing has no effect on registry state: processing a bus event, be it
\* delivered, undelivered or malformed, leaves the clients map, the
\* jobSubscriptions map and every connection's registration state, identity,
\* readyState and isAlive flag as they were.
C21_RoutingFrame ==
    [][/\ (/\ last'.op = "bus"
            /\ \E m \in BusMessages, channel \in Channels : BusEvent(channel, m))
            => /\ clients' = clients
               /\ registered' = registered
               /\ userId' = userId
               /\ readyState' = readyState
               /\ isAlive' = isAlive
               /\ jobSubscriptions' = jobSubscriptions
       /\ (/\ last'.op = "job-update"
            /\ \E m \in JobUpdates : JobUpdate(m))
            => /\ jobSubscriptions' = jobSubscriptions
               /\ clientJobs' = clientJobs
               /\ clientIds' = clientIds
               /\ jReadyState' = jReadyState
               /\ clients' = clients]_vars

\* An event for u1 has just been delivered to the one open connection of u1,
\* while u1's set still holds a second connection that is not open.
C21_Witness ==
    /\ last.op = "bus" /\ last.key = "u1"
    /\ Len(out) = 1
    /\ "u1" \in DOMAIN clients
    /\ Len(clients["u1"]) = 2

\* C22. User isolation: an event whose routing key is user U is sent only on
\* connections registered as U, at most once on each; a connection registered
\* under another identity, or not registered, is sent nothing.
C22_UserIsolation ==
    [][last'.op = "bus"
       => \A m \in BusMessages :
            (RoutingKey(m) = last'.key /\ \E channel \in Channels : BusEvent(channel, m))
            => \A i \in 1..Len(out') :
                 /\ Decodes(m)
                 /\ registered[out'[i].to]
                 /\ userId[out'[i].to] = m.userId
                 /\ \A j \in 1..(i - 1) : out'[j].to # out'[i].to]_vars

\* Two open connections are registered under different identities and the event
\* for u1 that was just routed went once to u1's connection and not to the other.
C22_Witness ==
    \E a, b \in Conns :
        /\ last.op = "bus" /\ last.key = "u1"
        /\ registered[a] /\ userId[a] = "u1" /\ readyState[a] = "OPEN"
        /\ registered[b] /\ userId[b] = "" /\ readyState[b] = "OPEN"
        /\ Sends(out, a) = 1
        /\ Sends(out, b) = 0

====
